---------------------------- MODULE Spec2Model ----------------------------
(***************************************************************************)
(* CatXL treaty evaluation and the optimal-window search of helpers.py.    *)
(*                                                                         *)
(* A behaviour is one use of the module: a treaty constructor is called    *)
(* with some parameters (treaty_CatXL, treaty_inuring_CatXL or             *)
(* treaty_CatXL_program); if its assertions pass, the returned treaty      *)
(* function is either called directly on a sequence of losses, or handed   *)
(* to find_window together with a window length and a timeline.            *)
(* Amounts are integers.  Timelines are sorted ascending by time, as every *)
(* branch of simulate_times produces them (arange, np.sort, cumsum), and   *)
(* time is counted from the first event.                                   *)
(***************************************************************************)
EXTENDS Integers, Sequences, FiniteSets

VARIABLES
    kind,       \* which constructor is called: "CatXL", "inuring", "program"
    dVec,       \* deductibles of the layers (CatXL: 1, inuring: 2, program: any)
    lVec,       \* limits of the layers
    pc,         \* "start", "built", "rejected", "evaluated", "scan", "returned", "raised"
    err,        \* the exception raised: "none", "AssertionError", "IndexError"
    i,          \* 1-based loop index (layer being validated / anchor being processed)
    losses,     \* argument of a direct call of the treaty function
    payout,     \* value of the last treaty evaluation
    windowLen,  \* find_window's windowLen
    timeVec,    \* find_window's timeVec
    lossVec,    \* find_window's lossVec
    maxPayout,  \* find_window's running maxPayout
    bestTimes,  \* find_window's running bestTimes
    result      \* the triple find_window returns

vars == <<kind, dVec, lVec, pc, err, i, losses, payout, windowLen, timeVec,
          lossVec, maxPayout, bestTimes, result>>

---------------------------------------------------------------------------
(* Bounds of the model *)

MaxLayers == 2
MaxParam == 2
MaxLosses == 2
MaxEvents == 2
MaxTime == 2
MaxAmount == 2
MaxLoss == 1
MaxWindow == 2

\* deductibles and limits; a negative deductible passes every assertion
Params == (0 - 1)..MaxParam
\* amounts of a direct call of a treaty function (noise can make a loss negative)
Amounts == (0 - 1)..MaxAmount
\* amounts on a timeline
TimelineAmounts == 0..MaxLoss
Times == 0..MaxTime
\* window lengths; 0 stands for the lengths find_window should refuse
WindowLens == 0..MaxWindow

RECURSIVE SeqsOfLen(_, _)
SeqsOfLen(S, n) ==
    IF n = 0 THEN {<<>>}
    ELSE {Append(s, x) : s \in SeqsOfLen(S, n - 1), x \in S}

SeqsUpTo(S, n) == UNION {SeqsOfLen(S, k) : k \in 0..n}

IsSorted(s) == \A k \in 1..(Len(s) - 1) : s[k] <= s[k + 1]

\* the timelines of n events: sorted, time counted from the first event
SortedTimeVecs(n) ==
    {s \in SeqsOfLen(Times, n) : IsSorted(s) /\ (n > 0 => s[1] = 0)}

---------------------------------------------------------------------------
(* Python builtins *)

Min(a, b) == IF a < b THEN a ELSE b
Max(a, b) == IF a > b THEN a ELSE b

RECURSIVE Sum(_)
Sum(s) == IF s = <<>> THEN 0 ELSE s[1] + Sum(Tail(s))

---------------------------------------------------------------------------
(* The treaty functions (the closures the constructors return) *)

\* a plausible slip: min and max exchanged
treaty_CatXL_Swapped(deductible, limit, ls) ==
    Max(Min(Sum(ls) - deductible, 0), limit - deductible)

\* a plausible slip: the floor at 0 is forgotten
treaty_CatXL_NoFloor(deductible, limit, ls) ==
    Min(Sum(ls) - deductible, limit - deductible)

treaty_CatXL(deductible, limit, ls) ==
    Min(Max(Sum(ls) - deductible, 0), limit - deductible)

\* a plausible slip: the second layer sees the raw total
treaty_inuring_CatXL_RawTotal(d1, l1, d2, l2, ls) ==
    LET payout1 == treaty_CatXL(d1, l1, ls)
        payout2 == Min(Max(Sum(ls) - d2, 0), l2 - d2)
    IN  payout1 + payout2

treaty_inuring_CatXL(d1, l1, d2, l2, ls) ==
    LET payout1 == treaty_CatXL(d1, l1, ls)
        leftover == Sum(ls) - payout1
        payout2 == Min(Max(leftover - d2, 0), l2 - d2)
    IN  payout1 + payout2

RECURSIVE ProgramSum(_, _, _, _)
ProgramSum(dV, lV, ls, k) ==
    IF k > Len(dV) THEN 0
    ELSE treaty_CatXL(dV[k], lV[k], ls) + ProgramSum(dV, lV, ls, k + 1)

\* the chain recurrence (sequential layers on the shrinking residual)
RECURSIVE evaluateInuringChain(_, _, _, _)
evaluateInuringChain(dV, lV, residual, k) ==
    IF k > Len(dV) THEN 0
    ELSE LET p == Min(Max(residual - dV[k], 0), lV[k] - dV[k])
         IN  p + evaluateInuringChain(dV, lV, residual - p, k + 1)

\* a plausible slip: the layers of a program are applied sequentially
treaty_CatXL_program_Sequential(dV, lV, ls) ==
    evaluateInuringChain(dV, lV, Sum(ls), 1)

treaty_CatXL_program(dV, lV, ls) == ProgramSum(dV, lV, ls, 1)

treatyFunc(ls) ==
    CASE kind = "CatXL" -> treaty_CatXL(dVec[1], lVec[1], ls)
      [] kind = "inuring" -> treaty_inuring_CatXL(dVec[1], lVec[1], dVec[2], lVec[2], ls)
      [] kind = "program" -> treaty_CatXL_program(dVec, lVec, ls)

---------------------------------------------------------------------------
(* The constructors' assertions *)

CatXL_assert(deductible, limit) == limit > deductible

inuring_assert(d1, l1, d2, l2) == l1 > d1 /\ l2 > d2

\* a plausible slip: the overlap assertion is left out
program_assert_NoOverlapCheck(dV, lV, k) == dV[k] < lV[k]

program_assert(dV, lV, k) ==
    /\ dV[k] < lV[k]
    /\ (k > 1 => dV[k] >= lV[k - 1])

---------------------------------------------------------------------------
(* find_window's loop body *)

\* the amounts of the events j >= k that the mask timeVec[k:] < t + windowLen keeps
RECURSIVE Masked(_, _, _)
Masked(tv, lv, bound) ==
    IF tv = <<>> THEN <<>>
    ELSE (IF tv[1] < bound THEN <<lv[1]>> ELSE <<>>)
         \o Masked(Tail(tv), Tail(lv), bound)

RECURSIVE MaskedClosed(_, _, _)
MaskedClosed(tv, lv, bound) ==
    IF tv = <<>> THEN <<>>
    ELSE (IF tv[1] <= bound THEN <<lv[1]>> ELSE <<>>)
         \o MaskedClosed(Tail(tv), Tail(lv), bound)

\* a plausible slip: <= in the mask, the window becomes closed
curLosses_Closed(k) ==
    MaskedClosed(SubSeq(timeVec, k, Len(timeVec)), SubSeq(lossVec, k, Len(lossVec)),
                 timeVec[k] + windowLen)

\* a plausible slip: the slices start after the anchor
curLosses_SkipAnchor(k) ==
    Masked(SubSeq(timeVec, k + 1, Len(timeVec)), SubSeq(lossVec, k + 1, Len(lossVec)),
           timeVec[k] + windowLen)

curLosses(k) ==
    Masked(SubSeq(timeVec, k, Len(timeVec)), SubSeq(lossVec, k, Len(lossVec)),
           timeVec[k] + windowLen)

\* a plausible slip: a tie replaces the best times instead of extending them
UpdateBest_TieReplaces(mp, bt, t, p) ==
    IF p >= mp THEN [maxPayout |-> p, bestTimes |-> <<t>>]
    ELSE [maxPayout |-> mp, bestTimes |-> bt]

UpdateBest(mp, bt, t, p) ==
    IF p = mp THEN [maxPayout |-> mp, bestTimes |-> Append(bt, t)]
    ELSE IF p > mp THEN [maxPayout |-> p, bestTimes |-> <<t>>]
    ELSE [maxPayout |-> mp, bestTimes |-> bt]

NoResult == [bestTime |-> 0, bestTimes |-> <<>>, maxPayout |-> 0]

---------------------------------------------------------------------------
(* The state machine *)

Configs ==
    {[kind |-> "CatXL", dVec |-> <<d>>, lVec |-> <<l>>] : d \in Params, l \in Params}
    \cup
    {[kind |-> "inuring", dVec |-> dv, lVec |-> lv] :
        dv \in SeqsOfLen(Params, 2), lv \in SeqsOfLen(Params, 2)}
    \cup
    UNION {{[kind |-> "program", dVec |-> dv, lVec |-> lv] :
                dv \in SeqsOfLen(Params, n), lv \in SeqsOfLen(Params, n)} :
           n \in 0..MaxLayers}

Init ==
    /\ \E c \in Configs :
        /\ kind = c.kind
        /\ dVec = c.dVec
        /\ lVec = c.lVec
    /\ pc = "start"
    /\ err = "none"
    /\ i = 1
    /\ losses = <<>>
    /\ payout = 0
    /\ windowLen = 1
    /\ timeVec = <<>>
    /\ lossVec = <<>>
    /\ maxPayout = 0
    /\ bestTimes = <<>>
    /\ result = NoResult

\* treaty_CatXL(deductible, limit): the assertion, then the closure is returned
Construct_CatXL ==
    /\ pc = "start"
    /\ kind = "CatXL"
    /\ IF CatXL_assert(dVec[1], lVec[1])
       THEN pc' = "built" /\ err' = err
       ELSE pc' = "rejected" /\ err' = "AssertionError"
    /\ UNCHANGED <<kind, dVec, lVec, i, losses, payout, windowLen, timeVec,
                   lossVec, maxPayout, bestTimes, result>>

\* treaty_inuring_CatXL(d1, l1, d2, l2)
Construct_inuring ==
    /\ pc = "start"
    /\ kind = "inuring"
    /\ IF inuring_assert(dVec[1], lVec[1], dVec[2], lVec[2])
       THEN pc' = "built" /\ err' = err
       ELSE pc' = "rejected" /\ err' = "AssertionError"
    /\ UNCHANGED <<kind, dVec, lVec, i, losses, payout, windowLen, timeVec,
                   lossVec, maxPayout, bestTimes, result>>

\* one iteration of treaty_CatXL_program's validation loop
Program_CheckLayer ==
    /\ pc = "start"
    /\ kind = "program"
    /\ i <= Len(dVec)
    /\ IF program_assert(dVec, lVec, i)
       THEN pc' = pc /\ err' = err /\ i' = i + 1
       ELSE pc' = "rejected" /\ err' = "AssertionError" /\ i' = i
    /\ UNCHANGED <<kind, dVec, lVec, losses, payout, windowLen, timeVec,
                   lossVec, maxPayout, bestTimes, result>>

\* the loop is over: res_func is returned
Program_Return ==
    /\ pc = "start"
    /\ kind = "program"
    /\ i > Len(dVec)
    /\ pc' = "built"
    /\ i' = 1
    /\ UNCHANGED <<kind, dVec, lVec, err, losses, payout, windowLen, timeVec,
                   lossVec, maxPayout, bestTimes, result>>

\* a direct call treatyFunc(losses)
CallTreaty ==
    /\ pc = "built"
    /\ \E ls \in SeqsUpTo(Amounts, MaxLosses) :
        /\ losses' = ls
        /\ payout' = treatyFunc(ls)
    /\ pc' = "evaluated"
    /\ UNCHANGED <<kind, dVec, lVec, err, i, windowLen, timeVec, lossVec,
                   maxPayout, bestTimes, result>>

\* find_window(windowLen, treatyFunc, timeVec, lossVec) is entered
CallFindWindow ==
    /\ pc = "built"
    /\ \E w \in WindowLens, n \in 0..MaxEvents :
        \E tv \in SortedTimeVecs(n), lv \in SeqsOfLen(TimelineAmounts, n) :
            /\ windowLen' = w
            /\ timeVec' = tv
            /\ lossVec' = lv
    /\ maxPayout' = 0
    /\ bestTimes' = <<>>
    /\ i' = 1
    /\ pc' = "scan"
    /\ UNCHANGED <<kind, dVec, lVec, err, losses, payout, result>>

\* one iteration of find_window's loop: anchor i
Anchor ==
    /\ pc = "scan"
    /\ i <= Len(timeVec)
    /\ LET p == treatyFunc(curLosses(i))
           u == UpdateBest(maxPayout, bestTimes, timeVec[i], p)
       IN  /\ payout' = p
           /\ maxPayout' = u.maxPayout
           /\ bestTimes' = u.bestTimes
    /\ i' = i + 1
    /\ UNCHANGED <<kind, dVec, lVec, pc, err, losses, windowLen, timeVec,
                   lossVec, result>>

\* a plausible slip: an empty bestTimes is returned instead of raising
Return_Silent ==
    /\ pc = "scan"
    /\ i > Len(timeVec)
    /\ pc' = "returned"
    /\ err' = err
    /\ result' = [bestTime |-> IF bestTimes = <<>> THEN 0 ELSE bestTimes[1],
                  bestTimes |-> bestTimes, maxPayout |-> maxPayout]
    /\ UNCHANGED <<kind, dVec, lVec, i, losses, payout, windowLen, timeVec,
                   lossVec, maxPayout, bestTimes>>

\* return bestTimes[0], bestTimes, maxPayout
Return ==
    /\ pc = "scan"
    /\ i > Len(timeVec)
    /\ IF bestTimes = <<>>
       THEN /\ pc' = "raised"
            /\ err' = "IndexError"
            /\ result' = result
       ELSE /\ pc' = "returned"
            /\ err' = err
            /\ result' = [bestTime |-> bestTimes[1], bestTimes |-> bestTimes,
                          maxPayout |-> maxPayout]
    /\ UNCHANGED <<kind, dVec, lVec, i, losses, payout, windowLen, timeVec,
                   lossVec, maxPayout, bestTimes>>

Next ==
    \/ Construct_CatXL
    \/ Construct_inuring
    \/ Program_CheckLayer
    \/ Program_Return
    \/ CallTreaty
    \/ CallFindWindow
    \/ Anchor
    \/ Return

Spec == Init /\ [][Next]_vars

TypeOK ==
    /\ kind \in {"CatXL", "inuring", "program"}
    /\ pc \in {"start", "built", "rejected", "evaluated", "scan", "returned", "raised"}
    /\ err \in {"none", "AssertionError", "IndexError"}
    /\ Len(dVec) = Len(lVec)
    /\ Len(timeVec) = Len(lossVec)
    /\ i \in 1..(Max(MaxLayers, MaxEvents) + 1)

---------------------------------------------------------------------------
(* Reference definitions used by the properties *)

Clamp(x, lo, hi) == Min(Max(x, lo), hi)

MaxOfSet(S) == CHOOSE x \in S : \A y \in S : y <= x

\* the amounts of the events whose index is in idx, in timeline order
RECURSIVE PickAmounts(_, _)
PickAmounts(idx, j) ==
    IF j > Len(lossVec) THEN <<>>
    ELSE (IF j \in idx THEN <<lossVec[j]>> ELSE <<>>) \o PickAmounts(idx, j + 1)

\* the events j >= k with time_k <= time_j < time_k + windowLen
AnchorWindow(k) ==
    {j \in k..Len(timeVec) :
        timeVec[k] <= timeVec[j] /\ timeVec[j] < timeVec[k] + windowLen}

AnchorPayout(k) == treatyFunc(PickAmounts(AnchorWindow(k), 1))

\* all the events lying in [s, s + windowLen)
EventsIn(s) ==
    {j \in 1..Len(timeVec) : s <= timeVec[j] /\ timeVec[j] < s + windowLen}

WindowPayout(s) == treatyFunc(PickAmounts(EventsIn(s), 1))

\* the times of the anchors 1..n whose payout is m, in scan order
RECURSIVE TimesPaying(_, _)
TimesPaying(m, n) ==
    IF n = 0 THEN <<>>
    ELSE TimesPaying(m, n - 1)
         \o (IF AnchorPayout(n) = m THEN <<timeVec[n]>> ELSE <<>>)

InFindWindow == pc \in {"scan", "returned", "raised"}

SearchInputOk == windowLen > 0 /\ timeVec # <<>> /\ IsSorted(timeVec)

WidthSum == Sum([k \in 1..Len(dVec) |-> lVec[k] - dVec[k]])

NonNegDeductibles == \A k \in 1..Len(dVec) : dVec[k] >= 0

---------------------------------------------------------------------------
(* C1: for a non-empty sorted timeline and windowLen > 0, after each anchor *)
(* is processed the running maxPayout is the maximum of the payouts of the  *)
(* anchors processed so far, the payout of anchor k being the treaty        *)
(* applied to exactly the events j >= k with                                *)
(* time_k <= time_j < time_k + windowLen; the returned maxPayout is the     *)
(* maximum over all the anchors.                                            *)
C1_WindowMax ==
    (InFindWindow /\ SearchInputOk) =>
        /\ i > 1 =>
            /\ payout = AnchorPayout(i - 1)
            /\ maxPayout = MaxOfSet({AnchorPayout(k) : k \in 1..(i - 1)})
        /\ pc # "raised"
        /\ pc = "returned" =>
            result.maxPayout = MaxOfSet({AnchorPayout(k) : k \in 1..Len(timeVec)})

\* a result whose best anchor has an event at exactly time + windowLen, and
\* counting that event would have paid more
C1_Witness ==
    /\ pc = "returned"
    /\ SearchInputOk
    /\ \E a \in 1..Len(timeVec), b \in 1..Len(timeVec) :
        /\ a < b
        /\ timeVec[b] = timeVec[a] + windowLen
        /\ AnchorPayout(a) = result.maxPayout
        /\ treatyFunc(PickAmounts(AnchorWindow(a) \cup {b}, 1)) > result.maxPayout

(* C2: for a non-empty sorted timeline and windowLen > 0, bestTimes holds,  *)
(* in scan order, the times of exactly the anchors processed so far whose   *)
(* payout equals the running maxPayout; it is never empty once an anchor    *)
(* was processed, and the returned best time is bestTimes[0], the time of   *)
(* the earliest anchor attaining the maximum.                               *)
C2_BestTimes ==
    (InFindWindow /\ SearchInputOk) =>
        /\ i > 1 =>
            /\ bestTimes = TimesPaying(maxPayout, i - 1)
            /\ bestTimes # <<>>
        /\ pc = "returned" =>
            /\ result.bestTimes = TimesPaying(result.maxPayout, Len(timeVec))
            /\ result.bestTimes # <<>>
            /\ result.bestTime = result.bestTimes[1]
            /\ \E k \in 1..Len(timeVec) :
                /\ AnchorPayout(k) = result.maxPayout
                /\ \A j \in 1..(k - 1) : AnchorPayout(j) < result.maxPayout
                /\ result.bestTime = timeVec[k]

\* two anchors at distinct times tie at a positive maximum
C2_Witness ==
    /\ pc = "returned"
    /\ SearchInputOk
    /\ result.maxPayout > 0
    /\ Len(result.bestTimes) >= 2
    /\ result.bestTimes[1] < result.bestTimes[2]
    /\ result.bestTime = result.bestTimes[1]

(* C3: find_window called with windowLen <= 0 fails at the start of the     *)
(* call: no anchor is evaluated and no result is returned.                  *)
C3_NonPositiveWindowRejected ==
    (InFindWindow /\ windowLen <= 0) => (i = 1 /\ pc # "returned")

C5_Invalid ==
    \/ \E k \in 1..Len(dVec) : dVec[k] >= lVec[k]
    \/ /\ kind = "program"
       /\ \E k \in 2..Len(dVec) : dVec[k] < lVec[k - 1]

C5_Construction ==
    /\ pc = "rejected" => (C5_Invalid /\ err = "AssertionError")
    /\ pc \notin {"start", "rejected"} => ~C5_Invalid
    /\ pc = "start" => (kind = "program" \/ i = 1)

\* the overlapping program: every layer is valid on its own
C5_Witness ==
    /\ pc = "rejected"
    /\ kind = "program"
    /\ Len(dVec) = 2
    /\ \A k \in 1..2 : dVec[k] < lVec[k]
    /\ dVec[1] = 0
    /\ dVec[2] < lVec[1]

(* C6: every payout of an accepted treaty lies between 0 and the sum of the *)
(* widths limit - deductible of its layers.                                 *)
C6_PayoutBounds ==
    (pc = "evaluated" \/ (InFindWindow /\ i > 1)) =>
        (0 <= payout /\ payout <= WidthSum)

\* a two-layer inuring treaty paying both layers in full
C6_Witness ==
    /\ pc = "evaluated"
    /\ kind = "inuring"
    /\ payout = WidthSum
    /\ Sum(losses) > payout

(* C7: the inuring treaty pays p1 + clamp((total - p1) - d2, 0, l2 - d2)    *)
(* with p1 = clamp(total - d1, 0, l1 - d1): the second layer sees what the  *)
(* first left unpaid; this is the chain recurrence at length 2.             *)
C7_InuringSequential ==
    (pc = "evaluated" /\ kind = "inuring") =>
        LET total == Sum(losses)
            p1 == Clamp(total - dVec[1], 0, lVec[1] - dVec[1])
        IN  /\ payout = p1 + Clamp((total - p1) - dVec[2], 0, lVec[2] - dVec[2])
            /\ payout = evaluateInuringChain(dVec, lVec, total, 1)

\* the order of the layers matters, and so does the residual
C7_Witness ==
    /\ pc = "evaluated"
    /\ kind = "inuring"
    /\ payout # evaluateInuringChain(<<dVec[2], dVec[1]>>, <<lVec[2], lVec[1]>>,
                                     Sum(losses), 1)
    /\ payout # Clamp(Sum(losses) - dVec[1], 0, lVec[1] - dVec[1])
                + Clamp(Sum(losses) - dVec[2], 0, lVec[2] - dVec[2])

(* C8: for an accepted program with deductibles >= 0 and non-negative       *)
(* losses of total S, the payout is the size of the part of [0, S) that the *)
(* layer intervals [dVec[k], lVec[k]) cover, hence at most S.               *)
C8_Covered(S) ==
    Cardinality({x \in 0..(S - 1) :
                    \E k \in 1..Len(dVec) : dVec[k] <= x /\ x < lVec[k]})

C8_ProgramCoverage ==
    (/\ pc = "evaluated"
     /\ kind = "program"
     /\ NonNegDeductibles
     /\ \A j \in 1..Len(losses) : losses[j] >= 0) =>
        /\ payout = C8_Covered(Sum(losses))
        /\ payout <= Sum(losses)

\* two layers, the total reaches into the second
C8_Witness ==
    /\ pc = "evaluated"
    /\ kind = "program"
    /\ Len(dVec) = 2
    /\ NonNegDeductibles
    /\ \A j \in 1..Len(losses) : losses[j] >= 0
    /\ Sum(losses) > dVec[2]
    /\ payout > lVec[1] - dVec[1]

(* C9 as stated: every accepted treaty pays 0 on an empty sequence of       *)
(* losses.                                                                  *)
C9_EmptyPaysZero_AsStated ==
    (pc = "evaluated" /\ losses = <<>>) => payout = 0

(* C9: every accepted treaty whose deductibles are all >= 0 pays 0 on an    *)
(* empty sequence of losses (a direct call, or a window without events).    *)
C9_EmptyPaysZero ==
    /\ (pc = "evaluated" /\ losses = <<>> /\ NonNegDeductibles) => payout = 0
    /\ (InFindWindow /\ i > 1 /\ windowLen <= 0 /\ NonNegDeductibles) => payout = 0

C9_Witness ==
    /\ pc = "evaluated"
    /\ losses = <<>>
    /\ kind = "inuring"
    /\ dVec[1] > 0
    /\ dVec[2] = 0
    /\ payout = 0

(* C10: for a sorted non-empty timeline of non-negative amounts and         *)
(* windowLen > 0, the returned maxPayout is at least the treaty payout of   *)
(* all the events in [s, s + windowLen) for every start s.  Times and       *)
(* windowLen being integers, a real start s selects the same events as the  *)
(* integer start ceil(s); starts outside StartTimes select no event, as     *)
(* MaxTime + 1 does.                                                        *)
StartTimes == (0 - MaxWindow)..(MaxTime + 1)

C10_NoOptimumLost ==
    (/\ pc = "returned"
     /\ SearchInputOk
     /\ \A j \in 1..Len(lossVec) : lossVec[j] >= 0) =>
        \A s \in StartTimes : result.maxPayout >= WindowPayout(s)

\* two events at the same time (the second anchor does not look back at the
\* first), and a start that is no event time with a paying window
C10_Witness ==
    /\ pc = "returned"
    /\ SearchInputOk
    /\ Len(timeVec) >= 2
    /\ timeVec[1] = timeVec[2]
    /\ AnchorPayout(2) < WindowPayout(timeVec[2])
    /\ \E s \in StartTimes :
        /\ \A j \in 1..Len(timeVec) : timeVec[j] # s
        /\ WindowPayout(s) > 0

===========================================================================
